---------------------------- MODULE Spec2Model ----------------------------
(***************************************************************************)
(* A model of ultimate_notion: the Session singleton and its process-wide  *)
(* identity cache (session.py), database creation with relation wiring     *)
(* (session.py, create_db), the RichText plain-text projection             *)
(* (objects.py) and the tagged property values (obj_api/props.py).         *)
(*                                                                         *)
(* None is modelled as 0 for ids and wrappers and as "none" for names.     *)
(***************************************************************************)
EXTENDS Integers, Sequences, FiniteSets, TLC

(* ------------------------------ bounds -------------------------------- *)
\* Session objects that are ever constructed.
MaxSessions == 2
\* Wrapper objects (Database / Page / User) that are ever allocated.
MaxWrappers == 2
\* Remote objects created through the API on top of the initial workspace.
MaxNew == 2

(* ------------------------- the remote workspace ----------------------- *)
\* The workspace the integration starts with: the bot user (users.me()), one
\* person, the root page and the 'Articles' database of the test fixture.
BotId == 1
PersonId == 2
RootPageId == 3
ArticlesId == 4
InitialIds == {BotId, PersonId, RootPageId, ArticlesId}
RemoteIds == 1 .. (4 + MaxNew)
Sessions == 1 .. MaxSessions
Wrappers == 1 .. MaxWrappers

(* ------------------------- declared schemas --------------------------- *)
\* A column is Column(name, property type); the property type carries its
\* configuration (number format) and, for a Relation, its target schema.
Col(n, t, c, tg) == [name |-> n, ptype |-> t, config |-> c, target |-> tg]

\* The PageSchema subclasses declared by the program, columns in declaration
\* order.  SchemaA/SchemaB target each other; Item has a back-relation column
\* (a Relation without target schema) and a self-reference; MySchema and
\* WrongSchema are those of tests/test_database.py, the others vary MySchema
\* by one column.
SchemaNames == {"SchemaA", "SchemaB", "Item", "MySchema", "WrongSchema",
                "EuroSchema", "ExtraSchema", "MissingSchema"}

Columns(sch) ==
    CASE sch = "SchemaA" ->
            << Col("Name", "title", "none", "none"),
               Col("ToB", "relation", "none", "SchemaB") >>
      [] sch = "SchemaB" ->
            << Col("Name", "title", "none", "none"),
               Col("ToA", "relation", "none", "SchemaA") >>
      [] sch = "Item" ->
            << Col("Name", "title", "none", "none"),
               Col("Back", "relation", "none", "none"),
               Col("Size", "number", "plain", "none"),
               Col("Self", "relation", "none", "Item") >>
      [] sch = "MySchema" ->
            << Col("Name", "title", "none", "none"),
               Col("Cost", "number", "dollar", "none"),
               Col("Description", "rich_text", "none", "none") >>
      [] sch = "WrongSchema" ->
            << Col("Name", "title", "none", "none"),
               Col("Cost", "rich_text", "none", "none"),
               Col("Description", "rich_text", "none", "none") >>
      [] sch = "EuroSchema" ->
            << Col("Name", "title", "none", "none"),
               Col("Cost", "number", "euro", "none"),
               Col("Description", "rich_text", "none", "none") >>
      [] sch = "ExtraSchema" ->
            << Col("Name", "title", "none", "none"),
               Col("Cost", "number", "dollar", "none"),
               Col("Description", "rich_text", "none", "none"),
               Col("Tags", "rich_text", "none", "none") >>
      [] sch = "MissingSchema" ->
            << Col("Name", "title", "none", "none"),
               Col("Cost", "number", "dollar", "none") >>

\* schema.db_title
db_title(sch) == sch

\* PageSchema.to_dict(): the name -> property type mapping, in declaration
\* order (a Python dict keeps insertion order).
to_dict(sch) == Columns(sch)

ColIdx == 1 .. 4
NoRefs == [sch \in SchemaNames |-> [i \in ColIdx |-> 0]]

\* The structural key of a column: (name, property type, configuration).
ColKey(c) == [name |-> c.name, ptype |-> c.ptype, config |-> c.config]
KeysOf(cols) == {ColKey(cols[i]) : i \in 1 .. Len(cols)}

VARIABLES
    active_session,  \* Session._active_session: a session or 0
    cache,           \* Session.cache: remote id -> wrapper or 0 (absent)
    client,          \* per Session object: "unborn" (no such object), "unset"
                     \* (registered, but __init__ raised before self.client was
                     \* set), "open", "closed"
    nextSession,     \* the next Session object to be allocated
    nextWrapper,     \* the next wrapper object to be allocated
    wrapperId,       \* wrapper -> the remote id of its obj_ref (0: unallocated)
    wrapperSchema,   \* Database wrapper -> the schema bound to it or "none"
    schemaDb,        \* schema._database: the Database wrapper or 0
    relRef,          \* schema -> column index -> database id the relation refers to
    remoteKind,      \* remote id -> "free", "user", "page", "db"
    remoteTitle,     \* remote id -> title
    remoteSchema,    \* remote database id -> set of column keys
    live,            \* (id, wrapper) pairs returned or cached since the last teardown
    lastOp           \* the last call: its name, arguments, outcome and result

sessionVars == << active_session, cache, client, nextSession, nextWrapper,
                  wrapperId, wrapperSchema, schemaDb, relRef, remoteKind,
                  remoteTitle, remoteSchema, live, lastOp >>

\* Values that live outside the session: a RichText and a property value.
VARIABLES
    text,            \* the str last handed to RichText.from_plain_text
    rich,            \* a RichText: the list of its spans' obj_refs
    plain,           \* what to_plain_text() last returned for rich
    obj,             \* a decoded or built TypedObject
    val              \* what obj.value last returned

valueVars == << text, rich, plain, obj, val >>

\* Threads that run Session operations step by step, and a View.
VARIABLES
    threads,         \* thread -> where it is in the operation it runs, its locals
    lock,            \* Session._lock: the thread that holds it or 0
    view,            \* the View the program goes on with, and how it got it
    viewOp           \* the last View operation: receiver, result and outcome

extraVars == << threads, lock, view, viewOp >>

vars == << sessionVars, valueVars, extraVars >>

(* ------------------------------ helpers ------------------------------- *)
\* The record of the last call.  op: "init", "get_active", "enter", "close",
\* "exit", "lookup" (a get_*, search_*, whoami, all_users, raise_for_status),
\* "create_page", "create_db", "set_schema"; s: the Session object of an init;
\* token: an init had auth or NOTION_AUTH_TOKEN;
\* err: the exception raised or "none" ("raised" for any exception of a
\* lookup, an enter or a create_page); hit: a wrapper it returned had been
\* returned or cached before; the rest is what create_db and the schema
\* assignment worked with (w: the Database wrapper, preSchema: the schema bound
\* to it before).
NoOp == [op |-> "none", s |-> 0, x |-> 0, schema |-> "none", err |-> "none",
         token |-> FALSE, hit |-> FALSE, preActive |-> 0, payload |-> << >>, phases |-> << >>,
         mismatch |-> {}, w |-> 0, preSchema |-> "none"]

EmptyCache == [x \in RemoteIds |-> 0]

\* The (id, wrapper) pairs a cache holds.
Entries(c) == {<<x, c[x]>> : x \in {y \in RemoteIds : c[y] # 0}}

\* A session object the program can reach: __init__ returned it, or it is
\* still registered in Session._active_session.
Reachable(s) == s < nextSession /\ (client[s] \in {"open", "closed"} \/ active_session = s)

\* The outcome of a call through self.api / self.client: AttributeError when
\* __init__ never set the client, the transport's error when the client was
\* closed or the remote call fails.
ApiErr(s, ok) ==
    CASE client[s] = "unset" -> "AttributeError"
      [] client[s] = "closed" -> "RuntimeError"
      [] ~ok -> "APIError"
      [] OTHER -> "none"

\* The answers of the remote a call through session s can meet: it succeeds or
\* fails where the client is open; without an open client the call never
\* reaches the remote.
Answers(s) == IF client[s] = "open" THEN BOOLEAN ELSE {FALSE}

\* The ways search is called: (name, exact); name "none" returns all.
SearchArgs(names) == {<<"none", TRUE>>} \cup {<<n, e>> : n \in names \ {"none"}, e \in BOOLEAN}

FreeIds == {x \in RemoteIds : remoteKind[x] = "free"}
NewId == CHOOSE x \in FreeIds : \A y \in FreeIds : x <= y

(* ------------------------- Session life cycle ------------------------- *)
\* A buggy variant: registers the new instance whatever is active.
initialize_once_replace(act, instance) == [err |-> "none", active |-> instance]

\* Session._initialize_once
initialize_once(act, instance) ==
    IF act # 0 /\ act # instance
    THEN [err |-> "ValueError", active |-> act]
    ELSE [err |-> "none", active |-> instance]

\* Session.__init__(auth, **kwargs).  hasToken: auth was passed or
\* NOTION_AUTH_TOKEN is set; clientOk: notion_client.Client(auth, **kwargs)
\* and NotionAPI(client) construct without raising.  An object whose
\* __init__ raised before it was registered is unreachable and dropped: it
\* keeps no place among the Session objects.
Session_init(hasToken, clientOk) ==
    /\ nextSession <= MaxSessions
    /\ LET inst == nextSession
           r == initialize_once(active_session, inst)
           base == [NoOp EXCEPT !.op = "init", !.s = inst, !.token = hasToken,
                                !.preActive = active_session]
       IN IF ~hasToken
          THEN /\ lastOp' = [base EXCEPT !.err = "RuntimeError"]
               /\ UNCHANGED << active_session, client, nextSession >>
          ELSE IF r.err # "none"
          THEN /\ lastOp' = [base EXCEPT !.err = r.err]
               /\ active_session' = r.active
               /\ UNCHANGED << client, nextSession >>
          ELSE /\ active_session' = r.active
               /\ nextSession' = nextSession + 1
               /\ IF clientOk
                  THEN /\ client' = [client EXCEPT ![inst] = "open"]
                       /\ lastOp' = base
                  ELSE /\ client' = [client EXCEPT ![inst] = "unset"]
                       /\ lastOp' = [base EXCEPT !.err = "TypeError"]
    /\ UNCHANGED << valueVars, extraVars, cache, nextWrapper, wrapperId, wrapperSchema, schemaDb, relRef,
                    remoteKind, remoteTitle, remoteSchema, live >>

\* Session.get_active
get_active(act) ==
    IF act # 0 THEN [err |-> "none", ret |-> act] ELSE [err |-> "ValueError", ret |-> 0]

Call_get_active ==
    /\ LET r == get_active(active_session)
       IN lastOp' = [NoOp EXCEPT !.op = "get_active", !.err = r.err,
                                 !.preActive = active_session]
    /\ UNCHANGED << valueVars, extraVars, active_session, cache, client, nextSession, nextWrapper, wrapperId,
                    wrapperSchema, schemaDb, relRef, remoteKind, remoteTitle,
                    remoteSchema, live >>

\* Session.__enter__: self.client.__enter__(); return self
Call_enter(s) ==
    /\ Reachable(s)
    /\ lastOp' = [NoOp EXCEPT !.op = "enter", !.preActive = active_session,
                    !.err = IF client[s] = "unset" THEN "raised" ELSE "none"]
    /\ UNCHANGED << valueVars, extraVars, active_session, cache, client, nextSession, nextWrapper, wrapperId,
                    wrapperSchema, schemaDb, relRef, remoteKind, remoteTitle,
                    remoteSchema, live >>

\* A buggy variant: releases the session but forgets Session.cache.clear().
close_keep_cache(act, c) == [active |-> 0, cache |-> c]

\* Session.close, after self.client.close(): the two class attributes.
close(act, c) == [active |-> 0, cache |-> EmptyCache]

\* Session.__exit__, after self.client.__exit__(...): the two class attributes.
exit(act, c) == [active |-> 0, cache |-> EmptyCache]

Teardown(op, s, r) ==
    /\ Reachable(s)
    /\ IF client[s] = "unset"
       THEN /\ lastOp' = [NoOp EXCEPT !.op = op, !.err = "AttributeError",
                                      !.preActive = active_session]
            /\ UNCHANGED << active_session, cache, client, live >>
       ELSE /\ client' = [client EXCEPT ![s] = "closed"]
            /\ active_session' = r.active
            /\ cache' = r.cache
            /\ live' = Entries(r.cache)
            /\ lastOp' = [NoOp EXCEPT !.op = op, !.preActive = active_session]
    /\ UNCHANGED << valueVars, extraVars, nextSession, nextWrapper, wrapperId, wrapperSchema, schemaDb,
                    relRef, remoteKind, remoteTitle, remoteSchema >>

Call_close(s) == Teardown("close", s, close(active_session, cache))

Call_exit(s) == Teardown("exit", s, exit(active_session, cache))

(* --------------------- lookups through the cache ---------------------- *)
\* A lookup's result: err, the new cache, the (id, wrapper) pairs returned and
\* the (id, wrapper) pairs of the wrappers newly allocated and kept.  A wrapper
\* built only to be dropped (the default handed to setdefault for a cached id)
\* is garbage at once and takes no wrapper number.
Failed(e, c) == [err |-> e, cache |-> c, ret |-> {}, alloc |-> {}]

\* A buggy variant: retrieves and caches a new wrapper even for a cached id.
get_db_no_cache(c, x, w, e, found) ==
    IF e = "none" /\ found
    THEN [err |-> "none", cache |-> [c EXCEPT ![x] = w], ret |-> {<<x, w>>},
          alloc |-> {<<x, w>>}]
    ELSE Failed(IF e = "none" THEN "APIError" ELSE e, c)

\* Session.get_db(db_ref).  w: the wrapper Database(obj_ref=...) would be;
\* e: the outcome of the call through self.api; found: the remote has a
\* database with this id.
get_db(c, x, w, e, found) ==
    IF c[x] # 0
    THEN [err |-> "none", cache |-> c, ret |-> {<<x, c[x]>>}, alloc |-> {}]
    ELSE IF e = "none" /\ found
    THEN [err |-> "none", cache |-> [c EXCEPT ![x] = w], ret |-> {<<x, w>>},
          alloc |-> {<<x, w>>}]
    ELSE Failed(IF e = "none" THEN "APIError" ELSE e, c)

\* Session.get_page(page_ref)
get_page(c, x, w, e, found) ==
    IF c[x] # 0
    THEN [err |-> "none", cache |-> c, ret |-> {<<x, c[x]>>}, alloc |-> {}]
    ELSE IF e = "none" /\ found
    THEN [err |-> "none", cache |-> [c EXCEPT ![x] = w], ret |-> {<<x, w>>},
          alloc |-> {<<x, w>>}]
    ELSE Failed(IF e = "none" THEN "APIError" ELSE e, c)

\* Session.get_user(user_ref)
get_user(c, x, w, e, found) ==
    IF c[x] # 0
    THEN [err |-> "none", cache |-> c, ret |-> {<<x, c[x]>>}, alloc |-> {}]
    ELSE IF e = "none" /\ found
    THEN [err |-> "none", cache |-> [c EXCEPT ![x] = w], ret |-> {<<x, w>>},
          alloc |-> {<<x, w>>}]
    ELSE Failed(IF e = "none" THEN "APIError" ELSE e, c)

\* dict.setdefault(x, w) over a list of results, in the order the remote
\* lists them (ascending ids here); w is the next wrapper to allocate.
RECURSIVE setdefault_all(_, _, _)
setdefault_all(c, w, ids) ==
    IF ids = {}
    THEN [cache |-> c, alloc |-> {}]
    ELSE LET x == CHOOSE m \in ids : \A y \in ids : m <= y
         IN IF c[x] # 0
            THEN setdefault_all(c, w, ids \ {x})
            ELSE LET rest == setdefault_all([c EXCEPT ![x] = w], w + 1, ids \ {x})
                 IN [cache |-> rest.cache, alloc |-> rest.alloc \cup {<<x, w>>}]

\* Session.search_db(db_name, exact).  res: the databases the query yields.
search_db(c, w, e, res, name, exact, titles) ==
    IF e # "none"
    THEN Failed(e, c)
    ELSE LET r == setdefault_all(c, w, res)
             dbs == IF exact /\ name # "none"
                    THEN {x \in res : titles[x] = name}
                    ELSE res
         IN [err |-> "none", cache |-> r.cache, alloc |-> r.alloc,
             ret |-> {<<x, r.cache[x]>> : x \in dbs}]

\* Session.search_page(title, exact).  res: the pages the query yields.
search_page(c, w, e, res, name, exact, titles) ==
    IF e # "none"
    THEN Failed(e, c)
    ELSE LET r == setdefault_all(c, w, res)
             pages == IF exact /\ name # "none"
                      THEN {x \in res : titles[x] = name}
                      ELSE res
         IN [err |-> "none", cache |-> r.cache, alloc |-> r.alloc,
             ret |-> {<<x, r.cache[x]>> : x \in pages}]

\* Session.whoami: users.me() is the bot user.
whoami(c, w, e) ==
    IF e # "none"
    THEN Failed(e, c)
    ELSE LET r == setdefault_all(c, w, {BotId})
         IN [err |-> "none", cache |-> r.cache, alloc |-> r.alloc,
             ret |-> {<<BotId, r.cache[BotId]>>}]

\* Session.all_users.  users: the users of the workspace.
all_users(c, w, e, users) ==
    IF e # "none"
    THEN Failed(e, c)
    ELSE LET r == setdefault_all(c, w, users)
         IN [err |-> "none", cache |-> r.cache, alloc |-> r.alloc,
             ret |-> {<<x, r.cache[x]>> : x \in users}]

\* Session.create_page(parent, title), given the id the remote assigned.
create_page(c, x, w, e) ==
    IF e # "none"
    THEN Failed(e, c)
    ELSE [err |-> "none", cache |-> [c EXCEPT ![x] = w], ret |-> {<<x, w>>},
          alloc |-> {<<x, w>>}]

\* A lookup's outcome as the record of the last call keeps it: which
\* exception a failed lookup raised is not told apart.
Outcome(e) == IF e = "none" THEN "none" ELSE "raised"

\* What a call that only reads or fills the cache leaves behind.
Commit(op, s, x, r) ==
    /\ nextWrapper + Cardinality(r.alloc) - 1 <= MaxWrappers
    /\ cache' = r.cache
    /\ nextWrapper' = nextWrapper + Cardinality(r.alloc)
    /\ wrapperId' = [w \in Wrappers |->
                        IF \E p \in r.alloc : p[2] = w
                        THEN (CHOOSE p \in r.alloc : p[2] = w)[1]
                        ELSE wrapperId[w]]
    /\ live' = live \cup r.ret \cup Entries(r.cache)
    /\ lastOp' = [NoOp EXCEPT !.op = op, !.err = Outcome(r.err),
                              !.hit = (r.ret \cap live # {}),
                              !.preActive = active_session]

Existing(kind) == {x \in RemoteIds : remoteKind[x] = kind}

\* The remote's search: a title matches a query when it contains it; the
\* titles of this workspace that contain another one are listed.
Contains(title, name) ==
    \/ title = name
    \/ <<title, name>> \in {<<"MySchema", "My">>, <<"Root", "Ro">>}

\* self.api.search(name).filter(property='object', value=kind).execute():
\* every object of the kind when name is None, else those whose title matches.
Query(kind, name) ==
    {x \in Existing(kind) : name = "none" \/ Contains(remoteTitle[x], name)}

Call_get_db(s, x, ok) ==
    /\ Reachable(s)
    /\ Commit("lookup", s, x,
              get_db(cache, x, nextWrapper, ApiErr(s, ok), remoteKind[x] = "db"))
    /\ UNCHANGED << valueVars, extraVars, active_session, client, nextSession, wrapperSchema, schemaDb, relRef,
                    remoteKind, remoteTitle, remoteSchema >>

Call_get_page(s, x, ok) ==
    /\ Reachable(s)
    /\ Commit("lookup", s, x,
              get_page(cache, x, nextWrapper, ApiErr(s, ok), remoteKind[x] = "page"))
    /\ UNCHANGED << valueVars, extraVars, active_session, client, nextSession, wrapperSchema, schemaDb, relRef,
                    remoteKind, remoteTitle, remoteSchema >>

Call_get_user(s, x, ok) ==
    /\ Reachable(s)
    /\ Commit("lookup", s, x,
              get_user(cache, x, nextWrapper, ApiErr(s, ok), remoteKind[x] = "user"))
    /\ UNCHANGED << valueVars, extraVars, active_session, client, nextSession, wrapperSchema, schemaDb, relRef,
                    remoteKind, remoteTitle, remoteSchema >>

Call_search_db(s, name, exact, ok) ==
    /\ Reachable(s)
    /\ Commit("lookup", s, 0,
              search_db(cache, nextWrapper, ApiErr(s, ok), Query("db", name), name, exact,
                        remoteTitle))
    /\ UNCHANGED << valueVars, extraVars, active_session, client, nextSession, wrapperSchema, schemaDb, relRef,
                    remoteKind, remoteTitle, remoteSchema >>

Call_search_page(s, name, exact, ok) ==
    /\ Reachable(s)
    /\ Commit("lookup", s, 0,
              search_page(cache, nextWrapper, ApiErr(s, ok), Query("page", name), name, exact,
                          remoteTitle))
    /\ UNCHANGED << valueVars, extraVars, active_session, client, nextSession, wrapperSchema, schemaDb, relRef,
                    remoteKind, remoteTitle, remoteSchema >>

Call_whoami(s, ok) ==
    /\ Reachable(s)
    /\ Commit("lookup", s, 0, whoami(cache, nextWrapper, ApiErr(s, ok)))
    /\ UNCHANGED << valueVars, extraVars, active_session, client, nextSession, wrapperSchema, schemaDb, relRef,
                    remoteKind, remoteTitle, remoteSchema >>

\* Session.raise_for_status: whoami(), its transport errors wrapped in
\* SessionError.
Call_raise_for_status(s, ok) ==
    /\ Reachable(s)
    /\ LET r == whoami(cache, nextWrapper, ApiErr(s, ok))
       IN Commit("lookup", s, 0,
                 [r EXCEPT !.ret = {},
                           !.err = IF r.err = "APIError" THEN "SessionError" ELSE r.err])
    /\ UNCHANGED << valueVars, extraVars, active_session, client, nextSession, wrapperSchema, schemaDb, relRef,
                    remoteKind, remoteTitle, remoteSchema >>

Call_all_users(s, ok) ==
    /\ Reachable(s)
    /\ Commit("lookup", s, 0,
              all_users(cache, nextWrapper, ApiErr(s, ok), Existing("user")))
    /\ UNCHANGED << valueVars, extraVars, active_session, client, nextSession, wrapperSchema, schemaDb, relRef,
                    remoteKind, remoteTitle, remoteSchema >>

Call_create_page(s, title, ok) ==
    /\ Reachable(s)
    /\ FreeIds # {}
    /\ LET e == ApiErr(s, ok)
       IN /\ Commit("create_page", s, NewId, create_page(cache, NewId, nextWrapper, e))
          /\ IF e = "none"
             THEN /\ remoteKind' = [remoteKind EXCEPT ![NewId] = "page"]
                  /\ remoteTitle' = [remoteTitle EXCEPT ![NewId] = title]
             ELSE UNCHANGED << remoteKind, remoteTitle >>
    /\ UNCHANGED << valueVars, extraVars, active_session, client, nextSession, wrapperSchema, schemaDb, relRef,
                    remoteSchema >>

(* ------------------ schemas, relations and create_db ------------------ *)
IsRelation(c) == c.ptype = "relation"

\* PageSchema._init_fwd_rels: every Relation column of the schema whose target
\* schema is bound to a database refers to that database; a relation whose
\* target has no database yet stays deferred.
init_fwd_rels(refs, sdb, wid, sch) ==
    [refs EXCEPT ![sch] =
        [i \in ColIdx |->
            IF /\ i <= Len(Columns(sch))
               /\ IsRelation(Columns(sch)[i])
               /\ Columns(sch)[i].target # "none"
               /\ sdb[Columns(sch)[i].target] # 0
            THEN wid[sdb[Columns(sch)[i].target]]
            ELSE refs[sch][i]]]

\* PageSchema._init_bwd_rels: the schema is bound to its database now, so every
\* Relation column that targets this schema (in any schema, this one included)
\* is populated with the id of this database.
init_bwd_rels(refs, sdb, wid, sch) ==
    [t \in SchemaNames |->
        [i \in ColIdx |->
            IF /\ sdb[sch] # 0
               /\ i <= Len(Columns(t))
               /\ IsRelation(Columns(t)[i])
               /\ Columns(t)[i].target = sch
            THEN wid[sdb[sch]]
            ELSE refs[t][i]]]

\* The columns that differ between a declared schema and a remote one: the
\* names whose (name, property type, configuration) key is on one side only.
MismatchCols(sch, remoteKeys) ==
    {k.name : k \in (KeysOf(Columns(sch)) \ remoteKeys) \cup (remoteKeys \ KeysOf(Columns(sch)))}

\* Database.schema = schema: the guarded replacement.  Binds the schema to the
\* wrapper and the wrapper to the schema, or raises SchemaError naming the
\* mismatching columns and changes nothing.
set_schema(wsch, sdb, w, sch, remoteKeys) ==
    IF MismatchCols(sch, remoteKeys) # {}
    THEN [err |-> "SchemaError", mismatch |-> MismatchCols(sch, remoteKeys),
          wrapperSchema |-> wsch, schemaDb |-> sdb]
    ELSE [err |-> "none", mismatch |-> {},
          wrapperSchema |-> [wsch EXCEPT ![w] = sch],
          schemaDb |-> [sdb EXCEPT ![sch] = w]]

\* The property type's obj_ref as sent to the API: the column with the
\* database its relation refers to.
PayloadCol(c, ref) == [name |-> c.name, ptype |-> c.ptype, config |-> c.config,
                       target |-> c.target, ref |-> ref]

WithRefs(sch, refs) == [i \in 1 .. Len(to_dict(sch)) |-> PayloadCol(to_dict(sch)[i], refs[sch][i])]

\* isinstance(prop_type, Relation) and not prop_type.schema
IsBackRel(c) == IsRelation(c) /\ c.target = "none"

NotBackRel(c) == ~IsBackRel(c)

\* A buggy variant: sends every column, back-relations included.
create_db_payload_all(sch, refs) == WithRefs(sch, refs)

\* Session.create_db: schema_no_backrels_dct / schema_dct, the creation
\* payload, in the order of schema.to_dict().
create_db_payload(sch, refs) == SelectSeq(WithRefs(sch, refs), NotBackRel)

\* A buggy variant: binds the schema without the guarded assignment.
create_db_bind_unchecked(wsch, sdb, refs, wid, w, sch, remoteKeys) ==
    LET sdb2 == [sdb EXCEPT ![sch] = w]
    IN [err |-> "none", mismatch |-> {},
        wrapperSchema |-> [wsch EXCEPT ![w] = sch], schemaDb |-> sdb2,
        relRef |-> init_bwd_rels(refs, sdb2, wid, sch), phases |-> <<"bind", "bwd">>]

\* A buggy variant: runs _init_bwd_rels before the schema is bound.
create_db_bind_bwd_first(wsch, sdb, refs, wid, w, sch, remoteKeys) ==
    LET r == set_schema(wsch, sdb, w, sch, remoteKeys)
    IN [err |-> r.err, mismatch |-> r.mismatch,
        wrapperSchema |-> r.wrapperSchema, schemaDb |-> r.schemaDb,
        relRef |-> init_bwd_rels(refs, sdb, wid, sch), phases |-> <<"bwd", "bind">>]

\* Session.create_db, after db = Database(obj_ref=db_obj):
\*     db.schema = schema; schema._init_bwd_rels()
create_db_bind(wsch, sdb, refs, wid, w, sch, remoteKeys) ==
    LET r == set_schema(wsch, sdb, w, sch, remoteKeys)
    IN IF r.err # "none"
       THEN [err |-> r.err, mismatch |-> r.mismatch,
             wrapperSchema |-> r.wrapperSchema, schemaDb |-> r.schemaDb,
             relRef |-> refs, phases |-> <<"bind">>]
       ELSE [err |-> "none", mismatch |-> {},
             wrapperSchema |-> r.wrapperSchema, schemaDb |-> r.schemaDb,
             relRef |-> init_bwd_rels(refs, r.schemaDb, wid, sch),
             phases |-> <<"bind", "bwd">>]

\* Session.create_db(parent, schema); schema = "none" is create_db(parent, None).
Call_create_db(s, sch, ok) ==
    /\ Reachable(s)
    /\ FreeIds # {}
    /\ nextWrapper <= MaxWrappers
    /\ LET e == ApiErr(s, ok)
           x == NewId
           w == nextWrapper
           refs1 == IF sch # "none" THEN init_fwd_rels(relRef, schemaDb, wrapperId, sch)
                    ELSE relRef
           payload == IF sch # "none" THEN create_db_payload(sch, refs1) ELSE << >>
           wid == [wrapperId EXCEPT ![w] = x]
           b == IF sch # "none"
                THEN create_db_bind(wrapperSchema, schemaDb, refs1, wid, w, sch,
                                    KeysOf(payload))
                ELSE [err |-> "none", mismatch |-> {}, wrapperSchema |-> wrapperSchema,
                      schemaDb |-> schemaDb, relRef |-> refs1, phases |-> << >>]
           pre == IF sch # "none" THEN <<"fwd", "create">> ELSE <<"create">>
           base == [NoOp EXCEPT !.op = "create_db", !.x = x, !.schema = sch, !.w = w,
                                !.preActive = active_session, !.payload = payload]
       IN IF e # "none"
          THEN \* the remote call raised: only _init_fwd_rels has acted
               /\ relRef' = refs1
               /\ lastOp' = [base EXCEPT !.err = e, !.phases = pre, !.x = 0, !.w = 0]
               /\ UNCHANGED << cache, nextWrapper, wrapperId, wrapperSchema, schemaDb,
                               remoteKind, remoteTitle, remoteSchema, live >>
          ELSE /\ remoteKind' = [remoteKind EXCEPT ![x] = "db"]
               /\ remoteTitle' = [remoteTitle EXCEPT ![x] =
                                     IF sch # "none" THEN db_title(sch) ELSE "none"]
               /\ remoteSchema' = [remoteSchema EXCEPT ![x] = KeysOf(payload)]
               /\ nextWrapper' = w + 1
               /\ wrapperId' = wid
               /\ wrapperSchema' = b.wrapperSchema
               /\ schemaDb' = b.schemaDb
               /\ relRef' = b.relRef
               /\ IF b.err # "none"
                  THEN \* db.schema = schema raised: the wrapper is dropped
                       /\ lastOp' = [base EXCEPT !.err = b.err, !.mismatch = b.mismatch,
                                                 !.phases = pre \o b.phases]
                       /\ UNCHANGED << cache, live >>
                  ELSE /\ cache' = [cache EXCEPT ![x] = w]
                       /\ live' = live \cup {<<x, w>>} \cup Entries(cache')
                       /\ lastOp' = [base EXCEPT
                                                 !.phases = pre \o b.phases \o <<"cache">>]
    /\ UNCHANGED << valueVars, extraVars, active_session, client, nextSession >>

\* db.schema = schema on a Database wrapper the program holds
\* (tests/test_database.py: article_db.schema = MySchema).
Call_set_schema(w, sch) ==
    /\ w < nextWrapper
    /\ remoteKind[wrapperId[w]] = "db"
    /\ LET r == set_schema(wrapperSchema, schemaDb, w, sch, remoteSchema[wrapperId[w]])
       IN /\ wrapperSchema' = r.wrapperSchema
          /\ schemaDb' = r.schemaDb
          /\ lastOp' = [NoOp EXCEPT !.op = "set_schema", !.x = wrapperId[w], !.w = w,
                                    !.preSchema = wrapperSchema[w],
                                    !.schema = sch, !.err = r.err, !.mismatch = r.mismatch,
                                    !.preActive = active_session]
    /\ UNCHANGED << valueVars, extraVars, active_session, cache, client, nextSession, nextWrapper, wrapperId,
                    relRef, remoteKind, remoteTitle, remoteSchema, live >>

(* ------------------------ RichText (objects.py) ----------------------- *)
\* The size limit of a single text span, scaled down.
MaxChunk == 2
\* The spans of a RichText that is wrapped around obj_refs.
MaxSpans == 3

\* A str is the sequence of its characters; texts are long enough to need
\* three chunks.
Alphabet == {"a", "b"}
MaxText == 2 * MaxChunk + 1

RECURSIVE Strings(_)
Strings(n) ==
    IF n = 0
    THEN {<< >>}
    ELSE LET S == Strings(n - 1)
         IN S \cup {Append(t, c) : t \in {u \in S : Len(u) = n - 1}, c \in Alphabet}

\* Python values: None, a str, and "unread" where nothing was returned yet.
None == [tag |-> "None", str |-> << >>]
Str(t) == [tag |-> "str", str |-> t]
Unread == [tag |-> "unread", str |-> << >>]

\* chunky(text): the consecutive chunks of at most MaxChunk characters; a
\* text without characters has no chunk.
chunky(t) ==
    [i \in 1 .. ((Len(t) + MaxChunk - 1) \div MaxChunk) |->
        SubSeq(t, (i - 1) * MaxChunk + 1,
               IF i * MaxChunk < Len(t) THEN i * MaxChunk ELSE Len(t))]

\* Text(part): a text span whose obj_ref renders as part.
Text(part) == [type |-> "text", plain_text |-> part]

\* A buggy variant: returns from inside the loop, after the first chunk.
from_plain_text_first(t) ==
    IF chunky(t) = << >> THEN << >> ELSE << Text(chunky(t)[1]) >>

\* RichText.from_plain_text(text)
from_plain_text(t) == [i \in 1 .. Len(chunky(t)) |-> Text(chunky(t)[i])]

\* RichText.wrap_obj_ref(obj_refs)
wrap_obj_ref(obj_refs) == obj_refs

\* ''.join(parts)
RECURSIVE join(_)
join(parts) == IF parts = << >> THEN << >> ELSE Head(parts) \o join(Tail(parts))

\* bool(obj_ref): a RichTextObject is an object without __bool__ or __len__.
Truthy(o) == TRUE

\* A buggy variant: joins whatever the list holds, the empty list included.
to_plain_text_join(self) ==
    LET kept == SelectSeq(self, Truthy)
    IN Str(join([i \in 1 .. Len(kept) |-> kept[i].plain_text]))

\* RichText.to_plain_text()
to_plain_text(self) ==
    IF self = << >>
    THEN None
    ELSE LET kept == SelectSeq(self, Truthy)
         IN Str(join([i \in 1 .. Len(kept) |-> kept[i].plain_text]))

Call_from_plain_text(t) ==
    /\ text' = Str(t)
    /\ rich' = from_plain_text(t)
    /\ plain' = Unread
    /\ UNCHANGED << sessionVars, extraVars, obj, val >>

\* RichText.wrap_obj_ref on the rich text of a page or block.
Call_wrap_obj_ref(obj_refs) ==
    /\ text' = None
    /\ rich' = wrap_obj_ref(obj_refs)
    /\ plain' = Unread
    /\ UNCHANGED << sessionVars, extraVars, obj, val >>

Call_to_plain_text ==
    /\ plain' = to_plain_text(rich)
    /\ UNCHANGED << sessionVars, extraVars, text, rich, obj, val >>

(* ------------------ property values (obj_api/props.py) ---------------- *)
\* The instants a date payload is drawn from.
MaxDate == 2
Dates == 1 .. MaxDate

\* A variant of a tagged union: the class, the tag it was declared with
\* (type=...) and the fields its class body declares.
Variant(c, t, f) == [cls |-> c, type |-> t, fields |-> f]

\* A buggy variant: Email declared with the tag of URL.
PropertyValues_copied_tag ==
    { Variant("Title", "title", {"title"}),
      Variant("URL", "url", {"url"}),
      Variant("Email", "url", {"email"}),
      Variant("Relation", "relation", {"relation", "has_more"}) }

\* The subclasses of PropertyValue.
PropertyValues ==
    { Variant("Title", "title", {"title"}),
      Variant("RichText", "rich_text", {"rich_text"}),
      Variant("Number", "number", {"number"}),
      Variant("Checkbox", "checkbox", {"checkbox"}),
      Variant("Date", "date", {"date"}),
      Variant("Status", "status", {"status"}),
      Variant("Select", "select", {"select"}),
      Variant("MultiSelect", "multi_select", {"multi_select"}),
      Variant("People", "people", {"people"}),
      Variant("URL", "url", {"url"}),
      Variant("Email", "email", {"email"}),
      Variant("PhoneNumber", "phone_number", {"phone_number"}),
      Variant("Files", "files", {"files"}),
      Variant("Formula", "formula", {"formula"}),
      Variant("Relation", "relation", {"relation", "has_more"}),
      Variant("Rollup", "rollup", {"rollup"}),
      Variant("CreatedTime", "created_time", {"created_time"}),
      Variant("CreatedBy", "created_by", {"created_by"}),
      Variant("LastEditedTime", "last_edited_time", {"last_edited_time"}),
      Variant("LastEditedBy", "last_edited_by", {"last_edited_by"}),
      Variant("UniqueID", "unique_id", {"unique_id"}),
      Variant("Verification", "verification", {"verification"}) }

\* The subclasses of FormulaResult.
FormulaResults ==
    { Variant("StringFormula", "string", {"string"}),
      Variant("NumberFormula", "number", {"number"}),
      Variant("DateFormula", "date", {"date"}),
      Variant("BooleanFormula", "boolean", {"boolean"}) }

\* The subclasses of RollupObject (function is the base class's field).
RollupObjects ==
    { Variant("RollupNumber", "number", {"number"}),
      Variant("RollupDate", "date", {"date"}),
      Variant("RollupArray", "array", {"array"}) }

RegistryNames == {"PropertyValue", "FormulaResult", "RollupObject"}

Registry(name) ==
    CASE name = "PropertyValue" -> PropertyValues
      [] name = "FormulaResult" -> FormulaResults
      [] name = "RollupObject" -> RollupObjects

\* The tags a wire payload can carry: every tag of the three unions and one
\* that none of them knows.
WireTags == {v.type : v \in PropertyValues \cup FormulaResults \cup RollupObjects}
                \cup {"unknown"}

\* objects.DateRange(start, end); end 0 is None.  NoDate: the field is None.
DateRange(a, b) == [start |-> a, end |-> b]
NoDate == DateRange(0, 0)
DatePayloads == {NoDate} \cup {DateRange(a, b) : a \in Dates, b \in Dates \cup {0}}

\* An object of a variant: its class, tag and declared fields, the field the
\* payload came in, and its payload: date for the date-typed variants, data
\* (0: None) for the others, function for a RollupObject.
NoObj == [registry |-> "none", cls |-> "none", type |-> "none", fields |-> {},
          given |-> "none", date |-> NoDate, data |-> 0, function |-> "none",
          err |-> "none"]

Object(reg, v, field, d, x, fn) ==
    [NoObj EXCEPT !.registry = reg, !.cls = v.cls, !.type = v.type,
                  !.fields = v.fields, !.given = field,
                  !.date = IF v.type = "date" THEN d ELSE NoDate,
                  !.data = IF v.type = "date" THEN 0 ELSE x,
                  !.function = IF reg = "RollupObject" THEN fn ELSE "none"]

\* Decoding a wire payload {"type": tag, tag: payload}: the variant of the
\* union registered under the tag, or a decode error.
Decode(reg, tag, d, x, fn) ==
    IF \E v \in Registry(reg) : v.type = tag
    THEN Object(reg, CHOOSE v \in Registry(reg) : v.type = tag, tag, d, x, fn)
    ELSE [NoObj EXCEPT !.registry = reg, !.type = tag, !.given = tag,
                       !.err = "decode error"]

\* PropertyValue.build(value): cls(**{cls.type: value}); Relation.build and
\* Date.build name their field themselves.
build(v, d, x) ==
    Object("PropertyValue", v,
           CASE v.cls = "Relation" -> "relation"
             [] v.cls = "Date" -> "date"
             [] OTHER -> v.type,
           d, x, "none")

\* What reading obj.value left behind: the value returned (tag "None", "date"
\* for one instant a, "tuple" for the pair (a, b), "data" for another payload)
\* and the object as it was before the read; NoVal: nothing was read yet.
Val(t, a, b, self) == [tag |-> t, a |-> a, b |-> b, of |-> self]
NoVal == Val("unread", 0, 0, NoObj)

\* A property's result: the value returned and the object afterwards.
Returns(t, a, b, self) == [ret |-> Val(t, a, b, self), self |-> self]

\* A buggy variant: forgets the end of a date range.
DateFormula_value_start(self) ==
    IF self.date = NoDate
    THEN Returns("None", 0, 0, self)
    ELSE Returns("date", self.date.start, 0, self)

\* DateFormula.value
DateFormula_value(self) ==
    IF self.date = NoDate
    THEN Returns("None", 0, 0, self)
    ELSE IF self.date.end = 0
    THEN Returns("date", self.date.start, 0, self)
    ELSE Returns("tuple", self.date.start, self.date.end, self)

\* RollupDate.value
RollupDate_value(self) ==
    IF self.date = NoDate
    THEN Returns("None", 0, 0, self)
    ELSE IF self.date.end = 0
    THEN Returns("date", self.date.start, 0, self)
    ELSE Returns("tuple", self.date.start, self.date.end, self)

\* StringFormula.value, NumberFormula.value, BooleanFormula.value,
\* RollupNumber.value, RollupArray.value: the payload field as it is.
field_value(self) ==
    IF self.data = 0
    THEN Returns("None", 0, 0, self)
    ELSE Returns("data", self.data, 0, self)

\* obj.value, dispatched on the class of obj.
value(self) ==
    CASE self.cls = "DateFormula" -> DateFormula_value(self)
      [] self.cls = "RollupDate" -> RollupDate_value(self)
      [] OTHER -> field_value(self)

Functions == {"none", "sum"}

Call_decode(reg, tag, d, x, fn) ==
    /\ obj' = Decode(reg, tag, d, x, fn)
    /\ val' = NoVal
    /\ UNCHANGED << sessionVars, extraVars, text, rich, plain >>

Call_build(v, d, x) ==
    /\ obj' = build(v, d, x)
    /\ val' = NoVal
    /\ UNCHANGED << sessionVars, extraVars, text, rich, plain >>

\* Reading obj.value of a formula result or a rollup object.
Call_value ==
    /\ obj.err = "none"
    /\ obj.registry \in {"FormulaResult", "RollupObject"}
    /\ val.tag = "unread"
    /\ LET r == value(obj)
       IN /\ val' = [r.ret EXCEPT !.of = obj]
          /\ obj' = r.self
    /\ UNCHANGED << sessionVars, extraVars, text, rich, plain >>

\* No RichText and no property value at hand.
NoValues ==
    /\ text = None
    /\ rich = << >>
    /\ plain = Unread
    /\ obj = NoObj
    /\ val = NoVal

(* ------------- Session operations run by two threads ------------------ *)
\* Each statement that reads or writes Session._active_session or
\* Session.cache is a step of its own; a thread's locals are s (the Session
\* object), x (the id looked up) and w (the wrapper it built).  bare: the
\* thread has read or written the shared state while it did not hold
\* Session._lock.
Threads == {1, 2}

Idle == [pc |-> "idle", s |-> 0, x |-> 0, w |-> 0, bare |-> FALSE]

\* The thread goes to pc with its locals.
At(t, pc, s, x, w) ==
    [threads EXCEPT ![t] = [pc |-> pc, s |-> s, x |-> x, w |-> w, bare |-> threads[t].bare]]

\* The thread touches the shared state and goes to pc.
Touch(t, pc, s, x, w) ==
    [threads EXCEPT ![t] = [pc |-> pc, s |-> s, x |-> x, w |-> w,
                            bare |-> threads[t].bare \/ lock # t]]

threadFrame == << wrapperSchema, schemaDb, relRef, remoteKind, remoteTitle,
                  remoteSchema, lastOp, valueVars, view, viewOp >>

\* Session(auth): the token is there; the new object is allocated.
T_init(t) ==
    /\ threads[t].pc = "idle"
    /\ nextSession <= MaxSessions
    /\ nextSession' = nextSession + 1
    /\ threads' = At(t, "init_lock", nextSession, 0, 0)
    /\ UNCHANGED << active_session, cache, client, nextWrapper, wrapperId, live, lock,
                    threadFrame >>

\* _initialize_once: with Session._lock
T_init_acquire(t) ==
    /\ threads[t].pc = "init_lock"
    /\ lock \in {0, t}
    /\ lock' = t
    /\ threads' = At(t, "init_check", threads[t].s, 0, 0)
    /\ UNCHANGED << active_session, cache, client, nextSession, nextWrapper, wrapperId,
                    live, threadFrame >>

\* _initialize_once: the test and the assignment, then the lock is released.
T_init_check(t) ==
    /\ threads[t].pc = "init_check"
    /\ LET r == initialize_once(active_session, threads[t].s)
       IN /\ active_session' = r.active
          /\ threads' = Touch(t, IF r.err = "none" THEN "init_client" ELSE "idle",
                              IF r.err = "none" THEN threads[t].s ELSE 0, 0, 0)
    /\ lock' = 0
    /\ UNCHANGED << cache, client, nextSession, nextWrapper, wrapperId, live, threadFrame >>

\* __init__: self.client = notion_client.Client(...); self.api = NotionAPI(...)
T_init_client(t, clientOk) ==
    /\ threads[t].pc = "init_client"
    /\ client' = [client EXCEPT ![threads[t].s] = IF clientOk THEN "open" ELSE "unset"]
    /\ threads' = At(t, "idle", 0, 0, 0)
    /\ UNCHANGED << active_session, cache, nextSession, nextWrapper, wrapperId, live, lock,
                    threadFrame >>

\* Session.get_active: with Session._lock, test and return (or raise).
T_get_active(t) ==
    /\ threads[t].pc = "idle"
    /\ lock \in {0, t}
    /\ lock' = t
    /\ threads' = At(t, "active_read", 0, 0, 0)
    /\ UNCHANGED << active_session, cache, client, nextSession, nextWrapper, wrapperId,
                    live, threadFrame >>

T_get_active_read(t) ==
    /\ threads[t].pc = "active_read"
    /\ lock' = 0
    /\ threads' = Touch(t, "idle", 0, 0, 0)
    /\ UNCHANGED << active_session, cache, client, nextSession, nextWrapper, wrapperId,
                    live, threadFrame >>

\* close / __exit__: self.client.close() / self.client.__exit__(...)
T_close(t, s) ==
    /\ threads[t].pc = "idle"
    /\ s < nextSession
    /\ client[s] \in {"open", "closed"}
    /\ client' = [client EXCEPT ![s] = "closed"]
    /\ threads' = At(t, "close_active", s, 0, 0)
    /\ UNCHANGED << active_session, cache, nextSession, nextWrapper, wrapperId, live, lock,
                    threadFrame >>

\* close / __exit__: Session._active_session = None
T_close_active(t) ==
    /\ threads[t].pc = "close_active"
    /\ active_session' = close(active_session, cache).active
    /\ threads' = Touch(t, "close_cache", threads[t].s, 0, 0)
    /\ UNCHANGED << cache, client, nextSession, nextWrapper, wrapperId, live, lock,
                    threadFrame >>

\* close / __exit__: Session.cache.clear()
T_close_cache(t) ==
    /\ threads[t].pc = "close_cache"
    /\ cache' = close(active_session, cache).cache
    /\ live' = Entries(cache')
    /\ threads' = Touch(t, "idle", 0, 0, 0)
    /\ UNCHANGED << active_session, client, nextSession, nextWrapper, wrapperId, lock,
                    threadFrame >>

\* get_db / get_page / get_user through session s: if uuid in self.cache
T_get(t, s, x) ==
    /\ threads[t].pc = "idle"
    /\ s < nextSession
    /\ client[s] = "open"
    /\ threads' = Touch(t, IF cache[x] # 0 THEN "get_cached" ELSE "get_retrieve", s, x, 0)
    /\ UNCHANGED << active_session, cache, client, nextSession, nextWrapper, wrapperId,
                    live, lock, threadFrame >>

\* return self.cache[uuid]: KeyError when the entry is gone by now.
T_get_cached(t) ==
    /\ threads[t].pc = "get_cached"
    /\ live' = IF cache[threads[t].x] # 0
               THEN live \cup {<<threads[t].x, cache[threads[t].x]>>}
               ELSE live
    /\ threads' = Touch(t, "idle", 0, 0, 0)
    /\ UNCHANGED << active_session, cache, client, nextSession, nextWrapper, wrapperId,
                    lock, threadFrame >>

\* obj = Wrapper(obj_ref=self.api...retrieve(uuid)): raises when the remote
\* has no such object, the call fails or the client was closed meanwhile.
T_get_retrieve(t, ok) ==
    /\ threads[t].pc = "get_retrieve"
    /\ IF ok /\ remoteKind[threads[t].x] # "free" /\ client[threads[t].s] = "open"
       THEN /\ nextWrapper <= MaxWrappers
            /\ nextWrapper' = nextWrapper + 1
            /\ wrapperId' = [wrapperId EXCEPT ![nextWrapper] = threads[t].x]
            /\ threads' = At(t, "get_store", threads[t].s, threads[t].x, nextWrapper)
       ELSE /\ threads' = At(t, "idle", 0, 0, 0)
            /\ UNCHANGED << nextWrapper, wrapperId >>
    /\ UNCHANGED << active_session, cache, client, nextSession, live, lock, threadFrame >>

\* self.cache[obj.id] = obj; return obj
T_get_store(t) ==
    /\ threads[t].pc = "get_store"
    /\ cache' = [cache EXCEPT ![threads[t].x] = threads[t].w]
    /\ live' = live \cup {<<threads[t].x, threads[t].w>>} \cup Entries(cache')
    /\ threads' = Touch(t, "idle", 0, 0, 0)
    /\ UNCHANGED << active_session, client, nextSession, nextWrapper, wrapperId, lock,
                    threadFrame >>

\* whoami through session s: self.cache.setdefault(user.id, User.wrap_obj_ref(user)),
\* one dict operation, after users.me() answered.
T_whoami(t, s) ==
    /\ threads[t].pc = "idle"
    /\ s < nextSession
    /\ client[s] = "open"
    /\ LET r == whoami(cache, nextWrapper, "none")
       IN /\ nextWrapper + Cardinality(r.alloc) - 1 <= MaxWrappers
          /\ nextWrapper' = nextWrapper + Cardinality(r.alloc)
          /\ wrapperId' = [w \in Wrappers |->
                              IF <<BotId, w>> \in r.alloc THEN BotId ELSE wrapperId[w]]
          /\ cache' = r.cache
          /\ live' = live \cup r.ret \cup Entries(r.cache)
    /\ threads' = Touch(t, "idle", 0, 0, 0)
    /\ UNCHANGED << active_session, client, nextSession, lock, threadFrame >>

(* ----------------------------- View (view.py) ------------------------- *)
\* The pages of a query result.
MaxPages == 2

\* database.properties.keys() of the databases a View is made of: one of them
\* has a column called like the default index.
Properties == { <<"Name", "Cost">>, <<"Name", "index">> }
IndexNames == {"index", "idx"}

\* A View: database (its property names), pages, columns, _has_index and
\* _index_name ("none": None).
NoView == [database |-> << >>, pages |-> << >>, columns |-> << >>,
           has_index |-> FALSE, index_name |-> "none"]

\* View.__init__(database, pages)
View(database, pages) ==
    [database |-> database, pages |-> pages, columns |-> database,
     has_index |-> FALSE, index_name |-> "none"]

\* The outcome of a method: the exception or "none", the receiver afterwards,
\* the View returned and whether that is the receiver itself.
Done(self, ret, same) == [err |-> "none", self |-> self, ret |-> ret, same |-> same]
Raised(e, self) == [err |-> e, self |-> self, ret |-> NoView, same |-> FALSE]

\* View.clone: a new View with copies of the two lists.
clone(self) ==
    [View(self.database, self.pages) EXCEPT !.columns = self.columns,
                                            !.has_index = self.has_index,
                                            !.index_name = self.index_name]

Elems(q) == {q[i] : i \in 1 .. Len(q)}

\* A buggy variant: appends the index column instead of inserting it first.
with_index_append(self, name) ==
    IF self.has_index
    THEN Done(self, self, TRUE)
    ELSE IF name \in Elems(self.columns)
    THEN Raised("AssertionError", self)
    ELSE Done(self, [clone(self) EXCEPT !.has_index = TRUE, !.index_name = name,
                                       !.columns = Append(self.columns, name)], FALSE)

\* View.with_index(name)
with_index(self, name) ==
    IF self.has_index
    THEN Done(self, self, TRUE)
    ELSE IF name \in Elems(self.columns)
    THEN Raised("AssertionError", self)
    ELSE Done(self, [clone(self) EXCEPT !.has_index = TRUE, !.index_name = name,
                                       !.columns = <<name>> \o self.columns], FALSE)

\* list.remove(x): without the first occurrence of x.
RECURSIVE remove(_, _)
remove(q, x) ==
    IF q = << >> THEN << >>
    ELSE IF Head(q) = x THEN Tail(q)
    ELSE <<Head(q)>> \o remove(Tail(q), x)

\* View.without_index()
without_index(self) ==
    IF ~self.has_index
    THEN Done(self, self, TRUE)
    ELSE IF self.index_name = "none"
    THEN Raised("AssertionError", self)
    ELSE IF self.index_name \notin Elems(self.columns)
    THEN Raised("ValueError", self)
    ELSE Done(self, [clone(self) EXCEPT !.columns = remove(self.columns, self.index_name),
                                       !.has_index = FALSE, !.index_name = "none"], FALSE)

\* View.head(num)
head(self, num) ==
    LET q == self.pages
        \* q[:num]
        stop == IF num < 0
                THEN (IF Len(q) + num < 0 THEN 0 ELSE Len(q) + num)
                ELSE (IF num > Len(q) THEN Len(q) ELSE num)
    IN Done(self, [clone(self) EXCEPT !.pages = SubSeq(q, 1, stop)], FALSE)

\* View.limit(num)
limit(self, num) == head(self, num)

\* View.tail(num)
tail(self, num) ==
    LET q == self.pages
        \* q[-num:]
        start == IF num > 0
                 THEN (IF Len(q) - num < 0 THEN 0 ELSE Len(q) - num)
                 ELSE (IF -num > Len(q) THEN Len(q) ELSE -num)
    IN Done(self, [clone(self) EXCEPT !.pages = SubSeq(q, start + 1, Len(q))], FALSE)

\* How the program got the View it holds: the method that returned it and
\* the receiver of that call.
Fresh == [op |-> "View", of |-> NoView]

NoCall == [op |-> "none", name |-> "none", before |-> NoView, after |-> NoView,
           ret |-> NoView, same |-> FALSE, err |-> "none", from |-> Fresh]

\* A method was called on the View held; the program goes on with the View
\* returned, or (keep) with the receiver.
Called(op, name, r, keep) ==
    /\ viewOp' = [op |-> op, name |-> name, before |-> view.self, after |-> r.self,
                  ret |-> r.ret, same |-> r.same, err |-> r.err, from |-> view.from]
    /\ view' = IF keep \/ r.err # "none" \/ r.same
               THEN [view EXCEPT !.self = r.self]
               ELSE [self |-> r.ret, from |-> [op |-> op, of |-> view.self]]
    /\ UNCHANGED << sessionVars, valueVars, threads, lock >>

Call_View(database, n) ==
    /\ view' = [self |-> View(database, [i \in 1 .. n |-> i]), from |-> Fresh]
    /\ viewOp' = [NoCall EXCEPT !.op = "View", !.ret = view'.self]
    /\ UNCHANGED << sessionVars, valueVars, threads, lock >>

Held == view.self # NoView

Call_clone(keep) == Held /\ Called("clone", "none", Done(view.self, clone(view.self), FALSE), keep)

Call_with_index(name, keep) == Held /\ Called("with_index", name, with_index(view.self, name), keep)

Call_without_index(keep) == Held /\ Called("without_index", "none", without_index(view.self), keep)

Call_head(num, keep) == Held /\ Called("head", "none", head(view.self, num), keep)

Call_limit(num, keep) == Held /\ Called("limit", "none", limit(view.self, num), keep)

Call_tail(num, keep) == Held /\ Called("tail", "none", tail(view.self, num), keep)

NoExtras ==
    /\ threads = [t \in Threads |-> Idle]
    /\ lock = 0
    /\ view = [self |-> NoView, from |-> Fresh]
    /\ viewOp = NoCall

(* --------------------------- specification ---------------------------- *)
SearchNames == {"none", "Articles", "My"}
PageNames == {"none", "Root", "Ro"}
PageTitles == {"none", "Root"}

Init ==
    /\ active_session = 0
    /\ cache = EmptyCache
    /\ client = [s \in Sessions |-> "unborn"]
    /\ nextSession = 1
    /\ nextWrapper = 1
    /\ wrapperId = [w \in Wrappers |-> 0]
    /\ wrapperSchema = [w \in Wrappers |-> "none"]
    /\ schemaDb = [sch \in SchemaNames |-> 0]
    /\ relRef = NoRefs
    /\ remoteKind = [x \in RemoteIds |->
                        CASE x \in {BotId, PersonId} -> "user"
                          [] x = RootPageId -> "page"
                          [] x = ArticlesId -> "db"
                          [] OTHER -> "free"]
    /\ remoteTitle = [x \in RemoteIds |->
                        CASE x = RootPageId -> "Root"
                          [] x = ArticlesId -> "Articles"
                          [] OTHER -> "none"]
    /\ remoteSchema = [x \in RemoteIds |->
                        IF x = ArticlesId THEN KeysOf(Columns("MySchema")) ELSE {}]
    /\ live = {}
    /\ lastOp = NoOp
    /\ NoValues
    /\ NoExtras

\* The schemas create_db is called with where the session and its cache are
\* what is looked at.
SessionSchemas == {"none", "MySchema"}

LifeCycle ==
    \/ \E hasToken \in BOOLEAN, clientOk \in BOOLEAN : Session_init(hasToken, clientOk)
    \/ Call_get_active
    \/ \E s \in Sessions : Call_enter(s)
    \/ \E s \in Sessions : Call_close(s)
    \/ \E s \in Sessions : Call_exit(s)

\* The sessions lookups and creations are called on: a session that was
\* closed is not used for them any more (its client is closed: it could only
\* return what the cache holds or raise); it can still be closed again.
Callers == {s \in Sessions : client[s] # "closed"}

\* The ids get_db, get_page and get_user are called with: every id of the
\* kind asked for, every cached id (of any kind) and one id the workspace does
\* not have; an uncached id of another kind fails as the unknown id does.
Refs(kind) ==
    {x \in RemoteIds : \/ remoteKind[x] = kind
                       \/ cache[x] # 0
                       \/ (remoteKind[x] = "free" /\ x = NewId)}

\* A lookup by a cached id does not reach the remote.
AnswersAt(s, x) == IF cache[x] # 0 THEN {TRUE} ELSE Answers(s)

Lookups ==
    \/ \E s \in Callers, x \in Refs("db") : \E ok \in AnswersAt(s, x) : Call_get_db(s, x, ok)
    \/ \E s \in Callers, x \in Refs("page") : \E ok \in AnswersAt(s, x) : Call_get_page(s, x, ok)
    \/ \E s \in Callers, x \in Refs("user") : \E ok \in AnswersAt(s, x) : Call_get_user(s, x, ok)
    \/ \E s \in Callers, a \in SearchArgs(SearchNames) : \E ok \in Answers(s) :
          Call_search_db(s, a[1], a[2], ok)
    \/ \E s \in Callers, a \in SearchArgs(PageNames) : \E ok \in Answers(s) :
          Call_search_page(s, a[1], a[2], ok)
    \/ \E s \in Callers : \E ok \in Answers(s) : Call_whoami(s, ok)
    \/ \E s \in Callers : \E ok \in Answers(s) : Call_raise_for_status(s, ok)
    \/ \E s \in Callers : \E ok \in Answers(s) : Call_all_users(s, ok)
    \/ \E s \in Callers, t \in PageTitles : \E ok \in Answers(s) : Call_create_page(s, t, ok)

Next ==
    \/ LifeCycle
    \/ Lookups
    \/ \E s \in Callers, sch \in SessionSchemas : \E ok \in Answers(s) :
          Call_create_db(s, sch, ok)

Spec == Init /\ [][Next]_vars

\* Databases and their schemas, through one session that is already open:
\* the state after Session(auth) returned.
SchemaInit ==
    /\ active_session = 1
    /\ cache = EmptyCache
    /\ client = [s \in Sessions |-> IF s = 1 THEN "open" ELSE "unborn"]
    /\ nextSession = 2
    /\ nextWrapper = 1
    /\ wrapperId = [w \in Wrappers |-> 0]
    /\ wrapperSchema = [w \in Wrappers |-> "none"]
    /\ schemaDb = [sch \in SchemaNames |-> 0]
    /\ relRef = NoRefs
    /\ remoteKind = [x \in RemoteIds |->
                        CASE x \in {BotId, PersonId} -> "user"
                          [] x = RootPageId -> "page"
                          [] x = ArticlesId -> "db"
                          [] OTHER -> "free"]
    /\ remoteTitle = [x \in RemoteIds |->
                        CASE x = RootPageId -> "Root"
                          [] x = ArticlesId -> "Articles"
                          [] OTHER -> "none"]
    /\ remoteSchema = [x \in RemoteIds |->
                        IF x = ArticlesId THEN KeysOf(Columns("MySchema")) ELSE {}]
    /\ live = {}
    /\ lastOp = [NoOp EXCEPT !.op = "init", !.s = 1, !.token = TRUE]
    /\ NoValues
    /\ NoExtras

SchemaNext ==
    \/ \E sch \in SchemaNames \cup {"none"}, ok \in BOOLEAN : Call_create_db(1, sch, ok)
    \/ \E w \in Wrappers, sch \in SchemaNames : Call_set_schema(w, sch)
    \/ \E x \in Existing("db"), ok \in BOOLEAN : Call_get_db(1, x, ok)

SchemaSpec == SchemaInit /\ [][SchemaNext]_vars

\* The session before any Session is constructed.
NoSession ==
    /\ active_session = 0
    /\ cache = EmptyCache
    /\ client = [s \in Sessions |-> "unborn"]
    /\ nextSession = 1
    /\ nextWrapper = 1
    /\ wrapperId = [w \in Wrappers |-> 0]
    /\ wrapperSchema = [w \in Wrappers |-> "none"]
    /\ schemaDb = [sch \in SchemaNames |-> 0]
    /\ relRef = NoRefs
    /\ remoteKind = [x \in RemoteIds |-> "free"]
    /\ remoteTitle = [x \in RemoteIds |-> "none"]
    /\ remoteSchema = [x \in RemoteIds |-> {}]
    /\ live = {}
    /\ lastOp = NoOp

\* The renderings of the spans a page's rich text is wrapped around, and the
\* obj_refs of such spans: texts and mentions.
SpanTexts == {<< >>, <<"a">>, <<"b", "a">>}
ObjRefs == {[type |-> k, plain_text |-> t] : k \in {"text", "mention"}, t \in SpanTexts}

RECURSIVE SeqsUpTo(_, _)
SeqsUpTo(S, n) ==
    IF n = 0
    THEN {<< >>}
    ELSE LET R == SeqsUpTo(S, n - 1)
         IN R \cup {Append(q, e) : q \in {r \in R : Len(r) = n - 1}, e \in S}

\* RichText values, built from plain text or wrapped, and projected.
TextInit == NoSession /\ NoValues /\ NoExtras

TextNext ==
    \/ \E t \in Strings(MaxText) : Call_from_plain_text(t)
    \/ \E obj_refs \in SeqsUpTo(ObjRefs, MaxSpans) : Call_wrap_obj_ref(obj_refs)
    \/ Call_to_plain_text

TextSpec == TextInit /\ [][TextNext]_vars

\* Property values, decoded from the wire or built, and their value read.
PropInit == NoSession /\ NoValues /\ NoExtras

PropNext ==
    \/ \E reg \in RegistryNames, tag \in WireTags, d \in DatePayloads, x \in {0, 1},
          fn \in Functions : Call_decode(reg, tag, d, x, fn)
    \/ \E v \in PropertyValues, d \in DatePayloads, x \in {0, 1} : Call_build(v, d, x)
    \/ Call_value

PropSpec == PropInit /\ [][PropNext]_vars

\* Two threads run Session operations on the test workspace; a first
\* session is open already.
ThreadNext ==
    \E t \in Threads :
        \/ T_init(t)
        \/ T_init_acquire(t)
        \/ T_init_check(t)
        \/ \E clientOk \in BOOLEAN : T_init_client(t, clientOk)
        \/ T_get_active(t)
        \/ T_get_active_read(t)
        \/ \E s \in Sessions : T_close(t, s)
        \/ T_close_active(t)
        \/ T_close_cache(t)
        \/ \E s \in Sessions, x \in InitialIds : T_get(t, s, x)
        \/ T_get_cached(t)
        \/ \E ok \in BOOLEAN : T_get_retrieve(t, ok)
        \/ T_get_store(t)
        \/ \E s \in Sessions : T_whoami(t, s)

\* Two threads share the process in which a Session was constructed.
ThreadSpec == SchemaInit /\ [][ThreadNext]_vars

\* Views made of query results and derived from one another.
ViewInit == NoSession /\ NoValues /\ NoExtras

ViewNext ==
    \/ \E database \in Properties, n \in 0 .. MaxPages : Call_View(database, n)
    \/ \E keep \in BOOLEAN : Call_clone(keep)
    \/ \E name \in IndexNames, keep \in BOOLEAN : Call_with_index(name, keep)
    \/ \E keep \in BOOLEAN : Call_without_index(keep)
    \/ \E num \in -1 .. (MaxPages + 1), keep \in BOOLEAN : Call_head(num, keep)
    \/ \E num \in -1 .. (MaxPages + 1), keep \in BOOLEAN : Call_limit(num, keep)
    \/ \E num \in -1 .. (MaxPages + 1), keep \in BOOLEAN : Call_tail(num, keep)

ViewSpec == ViewInit /\ [][ViewNext]_vars

(* ------------------------------ claims ------------------------------- *)
\* C1: constructing a Session while another Session S is active fails before
\* any client is created and leaves S active: with credentials at hand the
\* error is the ValueError of _initialize_once (without them __init__ has
\* raised RuntimeError even earlier), the new object has no client, and
\* Session._active_session is still S.
C1_SecondSessionFailsFast ==
    (lastOp.op = "init" /\ lastOp.preActive # 0) =>
        /\ lastOp.err = (IF lastOp.token THEN "ValueError" ELSE "RuntimeError")
        /\ client[lastOp.s] = "unborn"
        /\ active_session = lastOp.preActive
        /\ active_session # lastOp.s

C1_Witness ==
    /\ lastOp.op = "init"
    /\ lastOp.preActive # 0
    /\ lastOp.token
    /\ lastOp.err = "ValueError"
    /\ client[lastOp.preActive] = "open"

\* C2: between two teardowns no remote id has two wrappers: all the wrappers
\* returned by the lookups and creations, and all those the cache holds or
\* held, agree for each id.
C2_OneWrapperPerId ==
    /\ \A p \in live : \A q \in live : p[1] = q[1] => p[2] = q[2]
    /\ Entries(cache) \subseteq live

C2_Witness ==
    /\ lastOp.op = "lookup"
    /\ lastOp.err = "none"
    /\ lastOp.hit
    /\ Cardinality(live) >= 2

\* C3: close() and __exit__() that return leave the cache and the
\* active-session slot empty, and no other step removes or replaces a cache
\* entry.
C3_OnlyTeardownInvalidates ==
    [][ /\ (lastOp'.op \in {"close", "exit"} /\ lastOp'.err = "none") =>
              (cache' = EmptyCache /\ active_session' = 0)
        /\ (\E x \in RemoteIds : cache[x] # 0 /\ cache'[x] # cache[x]) =>
              (lastOp'.op \in {"close", "exit"} /\ lastOp'.err = "none")
      ]_sessionVars

C3_Witness ==
    /\ lastOp.op = "close"
    /\ lastOp.err = "none"
    /\ nextWrapper > 1
    /\ cache = EmptyCache
    /\ active_session = 0

\* The position of the column called n in a declaration.
PosOf(cols, n) == CHOOSE j \in 1 .. Len(cols) : cols[j].name = n

\* C4: the payload create_db sends for a schema holds no Relation column
\* without target schema, holds every other column of to_dict() (relations
\* with a target, self-references included) under its declared name and
\* type, holds nothing else, and keeps the declaration order.
C4_PayloadDropsBackRelations ==
    (lastOp.op = "create_db" /\ lastOp.schema # "none") =>
        LET P == lastOp.payload
            D == to_dict(lastOp.schema)
        IN /\ \A i \in 1 .. Len(P) : ~(P[i].ptype = "relation" /\ P[i].target = "none")
           /\ \A j \in 1 .. Len(D) :
                 (D[j].ptype # "relation" \/ D[j].target # "none") =>
                     \E i \in 1 .. Len(P) : ColKey(P[i]) = ColKey(D[j]) /\ P[i].target = D[j].target
           /\ \A i \in 1 .. Len(P) :
                 \E j \in 1 .. Len(D) : ColKey(P[i]) = ColKey(D[j]) /\ P[i].target = D[j].target
           /\ \A i \in 1 .. Len(P) : \A k \in 1 .. Len(P) :
                 i < k => PosOf(D, P[i].name) < PosOf(D, P[k].name)

C4_Witness ==
    /\ lastOp.op = "create_db"
    /\ lastOp.schema = "Item"
    /\ Len(lastOp.payload) = 3
    /\ lastOp.payload[3].name = "Self"

Differing(sch, remoteKeys) ==
    {n \in {k.name : k \in KeysOf(Columns(sch)) \cup remoteKeys} :
        {k \in KeysOf(Columns(sch)) : k.name = n} # {k \in remoteKeys : k.name = n}}

\* C6: a schema is bound to a database only if it equals the remote schema
\* column by column; assigning an equal schema succeeds, and assigning one
\* that differs raises SchemaError naming exactly the differing columns and
\* leaves the schema bound to the database as it was.
C6_SchemaGuard ==
    /\ \A w \in Wrappers :
          wrapperSchema[w] # "none" =>
              KeysOf(Columns(wrapperSchema[w])) = remoteSchema[wrapperId[w]]
    /\ lastOp.op = "set_schema" =>
          IF Differing(lastOp.schema, remoteSchema[lastOp.x]) = {}
          THEN /\ lastOp.err = "none"
               /\ wrapperSchema[lastOp.w] = lastOp.schema
          ELSE /\ lastOp.err = "SchemaError"
               /\ lastOp.mismatch = Differing(lastOp.schema, remoteSchema[lastOp.x])
               /\ wrapperSchema[lastOp.w] = lastOp.preSchema
    /\ (lastOp.op = "create_db" /\ lastOp.err = "SchemaError") =>
          /\ lastOp.mismatch = Differing(lastOp.schema, remoteSchema[lastOp.x])
          /\ lastOp.mismatch # {}
          /\ wrapperSchema[lastOp.w] = "none"

C6_Witness ==
    /\ lastOp.op = "set_schema"
    /\ lastOp.schema = "WrongSchema"
    /\ lastOp.x = ArticlesId
    /\ lastOp.preSchema = "MySchema"
    /\ lastOp.err = "SchemaError"
    /\ lastOp.mismatch = {"Cost"}
    /\ wrapperSchema[lastOp.w] = "MySchema"

\* The number of characters the spans before the i-th one render to.
RECURSIVE Offset(_, _)
Offset(spans, i) ==
    IF i <= 1 THEN 0 ELSE Offset(spans, i - 1) + Len(spans[i - 1].plain_text)

\* C7: to_plain_text() returns None, not '', for a RichText without spans; for
\* one with spans it returns a str that is the spans' renderings one after the
\* other, in order: as long as all of them together, the i-th rendering
\* at the place where the earlier ones end, a span that renders to '' adding
\* nothing.
C7_PlainTextProjection ==
    plain.tag # "unread" =>
        IF rich = << >>
        THEN plain = None
        ELSE /\ plain.tag = "str"
             /\ Len(plain.str) = Offset(rich, Len(rich) + 1)
             /\ \A i \in 1 .. Len(rich) :
                   SubSeq(plain.str, Offset(rich, i) + 1,
                          Offset(rich, i) + Len(rich[i].plain_text)) = rich[i].plain_text

C7_Witness ==
    /\ plain.tag = "str"
    /\ Len(rich) = 3
    /\ rich[2].plain_text = << >>
    /\ rich[1].plain_text = <<"b", "a">>
    /\ rich[3].plain_text = <<"a">>
    /\ plain.str = <<"b", "a", "a">>

\* C8 as stated: whatever the length of s, zero included,
\* to_plain_text(from_plain_text(s)) is s.
C8_RoundTripEveryLength ==
    (text.tag = "str" /\ plain.tag # "unread") => plain = Str(text.str)

\* C8, amended: from_plain_text(s) yields one Text span per chunk, no span
\* empty or longer than the limit, at least two spans for a string twice the
\* limit long; the spans rendered one after the other are s; and
\* to_plain_text gives s back when s has characters, while for s = '' there
\* is no span and to_plain_text gives None.
C8_ChunkedRoundTrip ==
    text.tag = "str" =>
        LET t == text.str
        IN /\ Len(rich) * MaxChunk >= Len(t)
           /\ (Len(rich) - 1) * MaxChunk < Len(t) \/ Len(rich) = 0
           /\ \A i \in 1 .. Len(rich) :
                 /\ rich[i].type = "text"
                 /\ Len(rich[i].plain_text) \in 1 .. MaxChunk
                 /\ rich[i].plain_text =
                       SubSeq(t, Offset(rich, i) + 1, Offset(rich, i) + Len(rich[i].plain_text))
           /\ Offset(rich, Len(rich) + 1) = Len(t)
           /\ Len(t) >= 2 * MaxChunk => Len(rich) >= 2
           /\ plain.tag # "unread" => plain = (IF t = << >> THEN None ELSE Str(t))

C8_Witness ==
    /\ text.tag = "str"
    /\ Len(text.str) = 2 * MaxChunk + 1
    /\ Len(rich) = 3
    /\ plain = Str(text.str)

\* C9: value of a DateFormula and of a RollupDate is the same projection of
\* the date payload: None without a payload, the start when there is no end,
\* the pair (start, end) otherwise; and reading it leaves the object as it
\* was.
C9_DateValueProjection ==
    (val.tag # "unread" /\ val.of.cls \in {"DateFormula", "RollupDate"}) =>
        /\ obj = val.of
        /\ val.of.date = NoDate => (val.tag = "None")
        /\ (val.of.date # NoDate /\ val.of.date.end = 0) =>
              (val.tag = "date" /\ val.a = val.of.date.start)
        /\ (val.of.date # NoDate /\ val.of.date.end # 0) =>
              (val.tag = "tuple" /\ val.a = val.of.date.start /\ val.b = val.of.date.end)

C9_Witness ==
    /\ val.tag = "tuple"
    /\ obj.cls = "DateFormula"
    /\ obj.date = DateRange(2, 1)
    /\ val.a = 2
    /\ val.b = 1

\* C10 as stated: every variant declares exactly one field, the one named as
\* its tag.
C10_ExactlyOneField ==
    (obj.err = "none" /\ obj.cls # "none") => obj.fields = {obj.type}

\* C10, amended: every variant declares the field named as its tag and no
\* other field, except Relation, which also declares has_more; the payload
\* goes into the field named as the tag; within a union no two variants have
\* the same tag, so a tag selects exactly one variant, and a tag the union
\* does not have is a decode error.
C10_TagNamesField ==
    /\ (obj.err = "none" /\ obj.cls # "none") =>
          /\ obj.type \in obj.fields
          /\ obj.fields \ {obj.type} = (IF obj.cls = "Relation" THEN {"has_more"} ELSE {})
          /\ obj.given = obj.type
          /\ Cardinality({v \in Registry(obj.registry) : v.type = obj.type}) = 1
          /\ \A v \in Registry(obj.registry) : v.type = obj.type <=> v.cls = obj.cls
    /\ obj.registry # "none" =>
          (obj.err = "decode error" <=> obj.type \notin {v.type : v \in Registry(obj.registry)})

C10_Witness ==
    /\ obj.registry = "RollupObject"
    /\ obj.type = "date"
    /\ obj.cls = "RollupDate"
    /\ obj.fields = {"date"}
    /\ obj.err = "none"

\* C11: Session._lock guards the shared state under every interleaving of two
\* threads: no thread reads or writes Session._active_session or
\* Session.cache without holding the lock, so no remote id gets two wrappers
\* and no two sessions are open at once.
C11_LockGuardsSharedState ==
    /\ \A t \in Threads : ~threads[t].bare
    /\ \A p \in live : \A q \in live : p[1] = q[1] => p[2] = q[2]
    /\ Cardinality({s \in Sessions : client[s] = "open"}) <= 1

\* Two threads looked up the same uncached id, and each got a wrapper of its
\* own.
C11_Witness ==
    /\ \E p \in live : \E q \in live : p[1] = q[1] /\ p[2] # q[2]
    /\ \A t \in Threads : threads[t].bare /\ threads[t].pc = "idle"
    /\ lock = 0

\* A session that was registered and not closed.
NotClosed(c, s) == c[s] \in {"open", "unset"}

\* C12: after any constructions and teardowns the active session is none or
\* the latest session not closed, at most one session is not closed, and a
\* step that leaves the active session open leaves it active and its cache
\* entries in place.
C12_TeardownOwnSessionOnly ==
    [][ /\ active_session' # 0 =>
              /\ NotClosed(client', active_session')
              /\ \A s \in Sessions : NotClosed(client', s) => s <= active_session'
        /\ Cardinality({s \in Sessions : NotClosed(client', s)}) <= 1
        /\ (active_session # 0 /\ client[active_session] = "open"
                /\ client'[active_session] = "open") =>
              /\ active_session' = active_session
              /\ \A x \in RemoteIds : cache[x] # 0 => cache'[x] = cache[x]
      ]_vars

\* C13: a Session.__init__ that raises leaves Session._active_session and
\* Session.cache as they were, so the active session is never one whose
\* construction did not finish.
C13_FailedInitChangesNothing ==
    [][ /\ (lastOp'.op = "init" /\ lastOp'.err # "none") =>
              (active_session' = active_session /\ cache' = cache)
        /\ active_session' # 0 => client'[active_session'] # "unset"
      ]_vars

\* has_index iff _index_name is not None iff the index name is the first
\* column and occurs once among the columns.
IndexInv(v) ==
    /\ v.has_index <=> v.index_name # "none"
    /\ v.has_index <=>
          /\ v.columns # << >>
          /\ v.columns[1] = v.index_name
          /\ Cardinality({i \in 1 .. Len(v.columns) : v.columns[i] = v.index_name}) = 1

\* C14: every View held or returned satisfies the index invariant; a method
\* leaves its receiver as it was; it returns the receiver itself exactly when
\* there is nothing to change (with_index on a View with index, which makes
\* with_index idempotent, and without_index on one without) and a new View
\* of the same database otherwise; without_index after with_index gives the
\* columns back; and the only exception is that of with_index for a name
\* that is a column already.
C14_ViewIndex ==
    /\ IndexInv(view.self)
    /\ (viewOp.op # "none" /\ viewOp.err = "none") => IndexInv(viewOp.ret)
    /\ viewOp.op \notin {"none", "View"} =>
          /\ viewOp.after = viewOp.before
          /\ viewOp.err # "none" =>
                /\ viewOp.op = "with_index"
                /\ ~viewOp.before.has_index
                /\ viewOp.name \in Elems(viewOp.before.columns)
          /\ viewOp.err = "none" =>
                /\ viewOp.same <=>
                      \/ (viewOp.op = "with_index" /\ viewOp.before.has_index)
                      \/ (viewOp.op = "without_index" /\ ~viewOp.before.has_index)
                /\ viewOp.same => viewOp.ret = viewOp.before
                /\ viewOp.ret.database = viewOp.before.database
                /\ viewOp.op = "with_index" => viewOp.ret.has_index
                /\ viewOp.op = "without_index" => ~viewOp.ret.has_index
                /\ viewOp.op \in {"clone", "head", "limit", "tail"} =>
                      /\ viewOp.ret.columns = viewOp.before.columns
                      /\ viewOp.ret.has_index = viewOp.before.has_index
                      /\ viewOp.ret.index_name = viewOp.before.index_name
                /\ (viewOp.op = "without_index" /\ viewOp.from.op = "with_index"
                        /\ ~viewOp.from.of.has_index) =>
                      viewOp.ret.columns = viewOp.from.of.columns

C14_Witness ==
    /\ viewOp.op = "without_index"
    /\ viewOp.err = "none"
    /\ viewOp.from.op = "with_index"
    /\ viewOp.before.columns = <<"idx", "Name", "index">>
    /\ viewOp.before.has_index
    /\ viewOp.after = viewOp.before
    /\ viewOp.ret.columns = <<"Name", "index">>
    /\ ~viewOp.ret.has_index

=============================================================================
